---- MODULE Spec2Model ----
(***************************************************************************)
(* A model of main.py: the session loop (main), the game runner            *)
(* (_play_game) and the action codec (_get_action), driving a small family *)
(* of games through the pyspiel state interface.                           *)
(***************************************************************************)
EXTENDS Integers, Sequences, FiniteSets, TLC

VARIABLES
    FLAGS,            \* the absl flags: game, player1, player2, num_games, seed, random_first
    argv,             \* argv[1:], the forced-opening labels
    pc,               \* position of the single thread of control
    bots,             \* main's list `bots`: <<bot for seat 0, bot for seat 1>>
    next_id,          \* identity of the next agent object to be constructed
    state,            \* _play_game's `state`: the actions applied since the initial state
    history,          \* _play_game's `history`
    initial_actions,  \* _play_game's `initial_actions`
    ia_idx,           \* position of `for action_str in initial_actions`
    current_player,   \* _play_game's `current_player`
    action,           \* _play_game's `action`
    action_str,       \* _play_game's `action_str`
    returns,          \* _play_game's `returns`
    histories,        \* main's `histories` (defaultdict(int))
    overall_returns,  \* main's `overall_returns`
    overall_wins,     \* main's `overall_wins`
    game_num,         \* main's `game_num`
    range_idx,        \* next value `range(FLAGS.num_games)` yields
    np_random,        \* state of numpy's global generator (np.random.choice)
    py_random,        \* state of the random module's global generator (random.choice)
    reported,         \* what the final report printed as "Number of games played"
    exit_msg,         \* why the process died ("" while it lives)
    ply,              \* log of the ply in hand: who acted, what the agents were told
    calls,            \* per game: restart calls on the two slots; agents used and not yet restarted
    completed,        \* log of the games whose _play_game returned
    folded,           \* number of games whose fold into the stats has finished
    interrupted_at,   \* where KeyboardInterrupt/EOFError was raised ("" if never)
    run,              \* 1 for the first run of the process, 2 for a repeated run
    prev              \* what the first run produced, kept for a repeated run

vars == <<FLAGS, argv, pc, bots, next_id, state, history, initial_actions, ia_idx,
          current_player, action, action_str, returns, histories, overall_returns,
          overall_wins, game_num, range_idx, np_random, py_random, reported,
          exit_msg, ply, calls, completed, folded, interrupted_at, run, prev>>

-----------------------------------------------------------------------------
(* Bounds of the model *)

MaxGames == 3      \* FLAGS.num_games ranges over 0..MaxGames

MaxOpening == 2    \* argv[1:] holds at most MaxOpening labels

-----------------------------------------------------------------------------
(* Values *)

NoAction == -1             \* _get_action's None

kChancePlayerId == -1      \* pyspiel.PlayerId.CHANCE

kSimultaneousPlayerId == -2

kTerminalPlayerId == -4

NoSeed == -1               \* FLAGS.seed is None

RngMod == 8                \* size of a generator's state space

_KNOWN_PLAYERS == {"mcts", "random", "human"}

Games == {"dice", "sim", "dup", "three"}

Seats == {0, 1}

Min(S) == CHOOSE x \in S : \A y \in S : x <= y

-----------------------------------------------------------------------------
(* The game engine (pyspiel), as main.py uses it.  A state is the sequence *)
(* of actions applied since new_initial_state().                           *)
(*   dice : chance, then seat 0, then seat 1, then terminal                *)
(*   sim  : seat 0; action 0 leads to a simultaneous node, action 1 to     *)
(*          seat 1; terminal after two plies                               *)
(*   dup  : seat 0 (two of its three actions share a label), then seat 1   *)
(*   three: a three-player game                                            *)

num_players(g) == IF g = "three" THEN 3 ELSE 2

new_initial_state(g) == << >>

is_terminal(g, s) ==
    IF g = "dice" THEN Len(s) >= 3 ELSE Len(s) >= 2

CurrentPlayerOf(g, s) ==
    IF is_terminal(g, s) THEN kTerminalPlayerId
    ELSE IF g = "dice" THEN
        (IF Len(s) = 0 THEN kChancePlayerId ELSE Len(s) - 1)
    ELSE IF g = "sim" THEN
        (IF Len(s) = 0 THEN 0
         ELSE IF s[1] = 0 THEN kSimultaneousPlayerId ELSE 1)
    ELSE Len(s)

is_chance_node(g, s) == CurrentPlayerOf(g, s) = kChancePlayerId

is_simultaneous_node(g, s) == CurrentPlayerOf(g, s) = kSimultaneousPlayerId

\* the outcome distribution of a chance node: <<action, weight>>, weights in
\* units of 1/RngMod
chance_outcomes(g, s) ==
    IF is_chance_node(g, s) THEN << <<0, 6>>, <<1, 2>> >> ELSE << >>

legal_actions(g, s) ==
    IF is_terminal(g, s) THEN << >>
    ELSE IF is_chance_node(g, s) THEN
        [i \in 1..Len(chance_outcomes(g, s)) |-> chance_outcomes(g, s)[i][1]]
    ELSE IF g = "dup" /\ Len(s) = 0 THEN <<0, 1, 2>>
    ELSE <<0, 1>>

\* the label of an action from a player's perspective
action_to_string(g, s, player, a) ==
    IF player = kChancePlayerId THEN <<"c0", "c1">>[a + 1]
    ELSE IF player = kSimultaneousPlayerId THEN <<"j0", "j1">>[a + 1]
    ELSE IF g = "dup" /\ player = 0 THEN <<"x", "x", "y">>[a + 1]
    ELSE IF player = 0 THEN <<"a", "b">>[a + 1]
    ELSE <<"A", "B">>[a + 1]

apply_action(s, a) == Append(s, a)

state_returns(g, s) ==
    IF ~is_terminal(g, s) THEN <<0, 0>>
    ELSE IF g = "dice" THEN
        (IF s[2] = s[3] THEN <<-1, 1>>
         ELSE IF s[1] = 0 THEN <<1, -1>> ELSE <<0, 0>>)
    ELSE IF g = "sim" THEN
        (IF s[1] = 0 THEN <<0, 0>>
         ELSE IF s[2] = 0 THEN <<1, -1>> ELSE <<-1, 1>>)
    ELSE
        (IF s[1] = 0 THEN <<1, -1>>
         ELSE IF s[1] = 1 THEN <<-1, 1>>
         ELSE IF s[2] = 0 THEN <<0, 0>> ELSE <<1, 1>>)

\* every label the game can show, and one no game shows
GameLabels(g) ==
    IF g = "dice" THEN {"c0", "c1", "a", "b", "A", "B"}
    ELSE IF g = "sim" THEN {"a", "b", "A", "B", "j0", "j1"}
    ELSE {"x", "y", "A", "B"}

Inputs(g) == GameLabels(g) \cup {"zz"}

-----------------------------------------------------------------------------
(* Pseudorandom generators: a linear congruential step on RngMod states.   *)

Lcg(s) == (5 * s + 1) % RngMod

\* rng.choice(seq) without weights: the generator's next state picks the index
Pick(s, n) == ((Lcg(s) \div 2) % n) + 1

RECURSIVE CumWeight(_, _)
CumWeight(outcomes, i) ==
    IF i = 0 THEN 0 ELSE CumWeight(outcomes, i - 1) + outcomes[i][2]

\* np.random.choice(action_list, p=prob_list): the first outcome whose
\* cumulative probability exceeds the uniform draw
Sample(outcomes, s) ==
    LET u == Lcg(s)
        i == Min({k \in 1..Len(outcomes) : u < CumWeight(outcomes, k)})
    IN  outcomes[i][1]

\* np.random.RandomState(seed)
SeedState(seed) == seed % RngMod

-----------------------------------------------------------------------------
(* Configurations *)

Seeds == {NoSeed, 0, 5}

Entropy == {0, 3}       \* what the operating system may seed a generator with

\* the values --player1 and --player2 are given on the command line; "bogus"
\* is a kind _KNOWN_PLAYERS does not hold
Player1Kinds == {"mcts", "human", "bogus"}

Player2Kinds == {"random", "human", "bogus"}

OpeningLabels(g) ==
    IF g = "dice" THEN {"c0", "c1", "a", "zz"}
    ELSE IF g = "sim" THEN {"a", "b", "j1", "zz"}
    ELSE {"x", "y", "A", "zz"}

RECURSIVE SeqsUpTo(_, _)
SeqsUpTo(S, n) ==
    IF n = 0 THEN {<< >>}
    ELSE LET shorter == SeqsUpTo(S, n - 1)
         IN  shorter \cup {Append(q, x) : q \in shorter, x \in S}

Openings(g) == SeqsUpTo(OpeningLabels(g), MaxOpening)

HasChance(g) == g = "dice"

-----------------------------------------------------------------------------
(* Helpers translated from main.py *)

\* a faulty _get_action: the comparison is lost and the first legal action is
\* returned for any label
_get_action_FirstLegal(g, s, label) ==
    IF Len(legal_actions(g, s)) = 0 THEN NoAction ELSE legal_actions(g, s)[1]

\* _get_action: the first legal action whose label equals action_str
_get_action(g, s, label) ==
    LET la == legal_actions(g, s)
        p == CurrentPlayerOf(g, s)
        hits == {i \in 1..Len(la) : action_to_string(g, s, p, la[i]) = label}
    IN  IF hits = {} THEN NoAction ELSE la[Min(hits)]

\* " ".join(history), as the sequence of its pieces
RECURSIVE Join(_)
Join(h) ==
    IF Len(h) = 0 THEN << >>
    ELSE IF Len(h) = 1 THEN <<h[1]>>
    ELSE <<h[1], " ">> \o Join(Tail(h))

\* histories[key], a defaultdict(int)
Count(d, key) == IF key \in DOMAIN d THEN d[key] ELSE 0

\* an agent object: its kind, its identity and its own generator
Bot(kind, id, rng) == [kind |-> kind, id |-> id, rng |-> rng]

isinstance_HumanBot(bot) == bot.kind = "human"

\* _init_bot: the generator is np.random.RandomState(FLAGS.seed); a HumanBot
\* never draws from it
_init_bot(bot_type, id, seed, e) ==
    Bot(bot_type, id,
        IF bot_type = "human" THEN 0
        ELSE IF seed = NoSeed THEN e ELSE SeedState(seed))

NoPly == [kind |-> "none", n |-> 0, actor |-> kTerminalPlayerId, at |-> << >>,
          act |-> NoAction, told |-> << << >>, << >> >>, decided |-> <<0, 0>>,
          applied |-> FALSE]

NewPly(kind, actor, s, a, decider) ==
    [kind |-> kind, n |-> Len(s) + 1, actor |-> actor, at |-> s, act |-> a,
     told |-> << << >>, << >> >>,
     decided |-> [i \in 1..2 |-> IF i - 1 = decider THEN 1 ELSE 0],
     applied |-> FALSE]

\* bot.inform_action(state, player, action), as seen by the agent in slot i
Tell(p, i, s, player, a) ==
    [p EXCEPT !.told[i] = Append(@, [state |-> s, player |-> player, action |-> a])]

NoCalls == [restart |-> <<0, 0>>, dirty |-> {}]

\* the agents with these identities have been asked or told something
Used(c, ids) == [c EXCEPT !.dirty = @ \cup ids]

-----------------------------------------------------------------------------
(* Initial state *)

Init ==
    /\ FLAGS \in [game : Games, player1 : Player1Kinds, player2 : Player2Kinds,
                  num_games : 0..MaxGames, seed : Seeds, random_first : BOOLEAN]
    /\ argv \in Openings(FLAGS.game)
    /\ pc = "main"
    /\ bots = << >>
    /\ next_id = 1
    /\ state = << >>
    /\ history = << >>
    /\ initial_actions = << >>
    /\ ia_idx = 1
    /\ current_player = kTerminalPlayerId
    /\ action = NoAction
    /\ action_str = ""
    /\ returns = <<0, 0>>
    /\ histories = << >>
    /\ overall_returns = <<0, 0>>
    /\ overall_wins = <<0, 0>>
    /\ game_num = 0
    /\ range_idx = 0
    /\ np_random \in (IF HasChance(FLAGS.game) THEN Entropy ELSE {0})
    /\ py_random \in (IF FLAGS.random_first THEN Entropy ELSE {0})
    /\ reported = -1
    /\ exit_msg = ""
    /\ ply = NoPly
    /\ calls = NoCalls
    /\ completed = << >>
    /\ folded = 0
    /\ interrupted_at = ""
    /\ run = 1
    /\ prev = << >>

\* the frame of _play_game is gone: its locals and the log of its last ply
FrameGone ==
    /\ state' = << >>
    /\ initial_actions' = << >>
    /\ ia_idx' = 1
    /\ current_player' = kTerminalPlayerId
    /\ action' = NoAction
    /\ action_str' = ""
    /\ ply' = NoPly

locals == <<state, history, initial_actions, ia_idx, current_player, action,
            action_str, returns, ply>>

stats == <<histories, overall_returns, overall_wins, completed, folded>>

config == <<FLAGS, argv, run, prev>>

rngs == <<np_random, py_random>>

\* sys.exit(msg) or an exception main does not catch: the process dies where it is
Die(msg) ==
    /\ pc' = "fatal"
    /\ exit_msg' = msg

-----------------------------------------------------------------------------
(* lines 37-38 and 223: app.run parses the flags before it calls main; a  *)
(* value DEFINE_enum does not list ends the process there                 *)
FlagError ==
    /\ pc = "main"
    /\ \/ FLAGS.player1 \notin _KNOWN_PLAYERS
       \/ FLAGS.player2 \notin _KNOWN_PLAYERS
    /\ Die("Illegal flag value")
    /\ UNCHANGED <<locals, stats, config, rngs, bots, next_id, game_num, range_idx,
                   reported, calls, interrupted_at>>

\* a faulty start: the number of players of the game is not looked at
MainStart_NoPlayerCheck ==
    /\ pc = "main"
    /\ FLAGS.player1 \in _KNOWN_PLAYERS
    /\ FLAGS.player2 \in _KNOWN_PLAYERS
    /\ \E e0, e1 \in (IF FLAGS.seed = NoSeed THEN Entropy ELSE {0}) :
          bots' = << _init_bot(FLAGS.player1, next_id, FLAGS.seed, e0),
                     _init_bot(FLAGS.player2, next_id + 1, FLAGS.seed, e1) >>
    /\ next_id' = next_id + 2
    /\ pc' = "loop"
    /\ UNCHANGED <<locals, stats, config, rngs, game_num, range_idx, reported,
                   exit_msg, calls, interrupted_at>>

(* main, lines 181-190: load the game, refuse more than two players, build *)
(* the two agents                                                          *)
MainStart ==
    /\ pc = "main"
    /\ FLAGS.player1 \in _KNOWN_PLAYERS
    /\ FLAGS.player2 \in _KNOWN_PLAYERS
    /\ \/ /\ num_players(FLAGS.game) > 2
          /\ Die("This game requires more players than the example can handle.")
          /\ UNCHANGED <<bots, next_id>>
       \/ /\ num_players(FLAGS.game) <= 2
          /\ \E e0, e1 \in (IF FLAGS.seed = NoSeed THEN Entropy ELSE {0}) :
                bots' = << _init_bot(FLAGS.player1, next_id, FLAGS.seed, e0),
                           _init_bot(FLAGS.player2, next_id + 1, FLAGS.seed, e1) >>
          /\ next_id' = next_id + 2
          /\ pc' = "loop"
          /\ UNCHANGED exit_msg
    /\ UNCHANGED <<locals, stats, config, rngs, game_num, range_idx, reported,
                   calls, interrupted_at>>

\* a faulty substitution: the agent in slot 1 is turned into a human in place
\* instead of being replaced by a new object
LoopHead_MutateInPlace ==
    /\ pc = "loop"
    /\ \/ /\ range_idx >= FLAGS.num_games
          /\ pc' = "report"
          /\ UNCHANGED <<game_num, range_idx, bots, next_id>>
       \/ /\ range_idx < FLAGS.num_games
          /\ game_num' = range_idx
          /\ range_idx' = range_idx + 1
          /\ IF range_idx = 2
             THEN /\ bots' = [bots EXCEPT ![2].kind = "human"]
                  /\ UNCHANGED next_id
             ELSE UNCHANGED <<bots, next_id>>
          /\ pc' = "play"
    /\ UNCHANGED <<locals, stats, config, rngs, reported, exit_msg, calls,
                   interrupted_at>>

\* a faulty loop head: the loop runs once more than --num_games asks for
LoopHead_OneMore ==
    /\ pc = "loop"
    /\ \/ /\ range_idx > FLAGS.num_games
          /\ pc' = "report"
          /\ UNCHANGED <<game_num, range_idx, bots, next_id>>
       \/ /\ range_idx <= FLAGS.num_games
          /\ game_num' = range_idx
          /\ range_idx' = range_idx + 1
          /\ IF range_idx = 2
             THEN /\ bots' = [bots EXCEPT ![2] = Bot("human", next_id, 0)]
                  /\ next_id' = next_id + 1
             ELSE UNCHANGED <<bots, next_id>>
          /\ pc' = "play"
    /\ UNCHANGED <<locals, stats, config, rngs, reported, exit_msg, calls,
                   interrupted_at>>

(* main, lines 199-205: the head of `for game_num in range(FLAGS.num_games)`, *)
(* the replacement of bots[1] at game_num == 2, and the call of _play_game    *)
LoopHead ==
    /\ pc = "loop"
    /\ \/ /\ range_idx >= FLAGS.num_games
          /\ pc' = "report"
          /\ UNCHANGED <<game_num, range_idx, bots, next_id>>
       \/ /\ range_idx < FLAGS.num_games
          /\ game_num' = range_idx
          /\ range_idx' = range_idx + 1
          /\ IF range_idx = 2
             THEN /\ bots' = [bots EXCEPT ![2] = Bot("human", next_id, 0)]
                  /\ next_id' = next_id + 1
             ELSE UNCHANGED <<bots, next_id>>
          /\ pc' = "play"
    /\ UNCHANGED <<locals, stats, config, rngs, reported, exit_msg, calls,
                   interrupted_at>>

(* _play_game, lines 116-124: the initial state, the empty history and the *)
(* random first move                                                       *)
NewGame ==
    /\ pc = "play"
    /\ state' = new_initial_state(FLAGS.game)
    /\ history' = << >>
    /\ ia_idx' = 1
    /\ ply' = NoPly
    /\ calls' = [calls EXCEPT !.restart = <<0, 0>>]
    /\ \/ /\ ~FLAGS.random_first
          /\ initial_actions' = argv
          /\ pc' = "forced"
          /\ UNCHANGED <<py_random, exit_msg>>
       \/ /\ FLAGS.random_first
          /\ argv # << >>
          /\ Die("AssertionError")
          /\ UNCHANGED <<py_random, initial_actions>>
       \/ /\ FLAGS.random_first
          /\ argv = << >>
          /\ LET s0 == new_initial_state(FLAGS.game)
                 la == legal_actions(FLAGS.game, s0)
                 a  == la[Pick(py_random, Len(la))]
             IN  initial_actions' =
                    << action_to_string(FLAGS.game, s0,
                                        CurrentPlayerOf(FLAGS.game, s0), a) >>
          /\ py_random' = Lcg(py_random)
          /\ pc' = "forced"
          /\ UNCHANGED exit_msg
    /\ UNCHANGED <<current_player, action, action_str, returns, stats, config,
                   np_random, bots, next_id, game_num, range_idx, reported,
                   interrupted_at>>

\* a faulty forced-opening step: the label is appended before it is resolved
ForcedResolve_AppendFirst ==
    /\ pc = "forced"
    /\ \/ /\ ia_idx > Len(initial_actions)
          /\ pc' = "classify"
          /\ UNCHANGED <<action, action_str, history, ply, ia_idx, exit_msg>>
       \/ /\ ia_idx <= Len(initial_actions)
          /\ _get_action(FLAGS.game, state, initial_actions[ia_idx]) = NoAction
          /\ action_str' = initial_actions[ia_idx]
          /\ action' = NoAction
          /\ history' = Append(history, initial_actions[ia_idx])
          /\ Die("Invalid action")
          /\ UNCHANGED <<ply, ia_idx>>
       \/ /\ ia_idx <= Len(initial_actions)
          /\ _get_action(FLAGS.game, state, initial_actions[ia_idx]) # NoAction
          /\ action_str' = initial_actions[ia_idx]
          /\ action' = _get_action(FLAGS.game, state, initial_actions[ia_idx])
          /\ history' = Append(history, initial_actions[ia_idx])
          /\ ply' = NewPly("forced", CurrentPlayerOf(FLAGS.game, state), state,
                           action', kTerminalPlayerId)
          /\ ia_idx' = ia_idx + 1
          /\ pc' = "f_inform"
          /\ UNCHANGED exit_msg
    /\ UNCHANGED <<state, initial_actions, current_player, returns, stats, config,
                   rngs, bots, next_id, game_num, range_idx, reported, calls,
                   interrupted_at>>

(* _play_game, lines 126-131: the next forced-opening label is resolved;   *)
(* an unresolved label ends the process, a resolved one is appended        *)
ForcedResolve ==
    /\ pc = "forced"
    /\ \/ /\ ia_idx > Len(initial_actions)
          /\ pc' = "classify"
          /\ UNCHANGED <<action, action_str, history, ply, ia_idx, exit_msg>>
       \/ /\ ia_idx <= Len(initial_actions)
          /\ _get_action(FLAGS.game, state, initial_actions[ia_idx]) = NoAction
          /\ action_str' = initial_actions[ia_idx]
          /\ action' = NoAction
          /\ Die("Invalid action")
          /\ UNCHANGED <<history, ply, ia_idx>>
       \/ /\ ia_idx <= Len(initial_actions)
          /\ _get_action(FLAGS.game, state, initial_actions[ia_idx]) # NoAction
          /\ action_str' = initial_actions[ia_idx]
          /\ action' = _get_action(FLAGS.game, state, initial_actions[ia_idx])
          /\ history' = Append(history, initial_actions[ia_idx])
          /\ ply' = NewPly("forced", CurrentPlayerOf(FLAGS.game, state), state,
                           action', kTerminalPlayerId)
          /\ ia_idx' = ia_idx + 1
          /\ pc' = "f_inform"
          /\ UNCHANGED exit_msg
    /\ UNCHANGED <<state, initial_actions, current_player, returns, stats, config,
                   rngs, bots, next_id, game_num, range_idx, reported, calls,
                   interrupted_at>>

\* a faulty forced-opening step: only the bots of the other seats are informed
ForcedInform_OthersOnly ==
    /\ pc = "f_inform"
    /\ ply' = LET player == CurrentPlayerOf(FLAGS.game, state)
                  p1 == IF player # 0 THEN Tell(ply, 1, state, player, action) ELSE ply
              IN  IF player # 1 THEN Tell(p1, 2, state, player, action) ELSE p1
    /\ pc' = "f_apply"
    /\ UNCHANGED <<state, history, initial_actions, ia_idx, current_player, action,
                   action_str, returns, stats, config, rngs, bots, next_id,
                   game_num, range_idx, reported, exit_msg, calls, interrupted_at>>

(* _play_game, lines 132-133: every bot is informed of the forced action *)
ForcedInform ==
    /\ pc = "f_inform"
    /\ ply' = Tell(Tell(ply, 1, state, CurrentPlayerOf(FLAGS.game, state), action),
                   2, state, CurrentPlayerOf(FLAGS.game, state), action)
    /\ calls' = Used(calls, {bots[i].id : i \in 1..2})
    /\ pc' = "f_apply"
    /\ UNCHANGED <<state, history, initial_actions, ia_idx, current_player, action,
                   action_str, returns, stats, config, rngs, bots, next_id,
                   game_num, range_idx, reported, exit_msg, interrupted_at>>

(* _play_game, lines 134-135: the forced action is applied *)
ForcedApply ==
    /\ pc = "f_apply"
    /\ state' = apply_action(state, action)
    /\ ply' = [ply EXCEPT !.applied = TRUE]
    /\ pc' = "forced"
    /\ UNCHANGED <<history, initial_actions, ia_idx, current_player, action,
                   action_str, returns, stats, config, rngs, bots, next_id,
                   game_num, range_idx, reported, exit_msg, calls, interrupted_at>>

(* _play_game, lines 137 and 170: the loop test finds the state terminal *)
(* and the final scores are read                                         *)
ReadReturns ==
    /\ pc = "classify"
    /\ is_terminal(FLAGS.game, state)
    /\ returns' = state_returns(FLAGS.game, state)
    /\ pc' = "restart"
    /\ UNCHANGED <<state, history, initial_actions, ia_idx, current_player, action,
                   action_str, ply, stats, config, rngs, bots, next_id, game_num,
                   range_idx, reported, exit_msg, calls, interrupted_at>>

(* _play_game, lines 138-146: a chance node; the outcome is drawn from *)
(* numpy's global generator                                            *)
ChanceStep ==
    /\ pc = "classify"
    /\ ~is_terminal(FLAGS.game, state)
    /\ is_chance_node(FLAGS.game, state)
    /\ current_player' = CurrentPlayerOf(FLAGS.game, state)
    /\ action' = Sample(chance_outcomes(FLAGS.game, state), np_random)
    /\ np_random' = Lcg(np_random)
    /\ action_str' = action_to_string(FLAGS.game, state, current_player', action')
    /\ ply' = NewPly("chance", current_player', state, action', kTerminalPlayerId)
    /\ pc' = "inform"
    /\ UNCHANGED <<state, history, initial_actions, ia_idx, returns, stats, config,
                   py_random, bots, next_id, game_num, range_idx, reported,
                   exit_msg, calls, interrupted_at>>

\* a faulty dispatcher: at a simultaneous node it guesses the first legal action
SimultaneousStep_Guess ==
    /\ pc = "classify"
    /\ ~is_terminal(FLAGS.game, state)
    /\ ~is_chance_node(FLAGS.game, state)
    /\ is_simultaneous_node(FLAGS.game, state)
    /\ current_player' = CurrentPlayerOf(FLAGS.game, state)
    /\ action' = legal_actions(FLAGS.game, state)[1]
    /\ action_str' = action_to_string(FLAGS.game, state, current_player', action')
    /\ ply' = NewPly("agent", current_player', state, action', kTerminalPlayerId)
    /\ pc' = "inform"
    /\ UNCHANGED <<state, history, initial_actions, ia_idx, returns, stats, config,
                   rngs, bots, next_id, game_num, range_idx, reported, exit_msg,
                   calls, interrupted_at>>

(* _play_game, lines 147-148: a simultaneous node raises ValueError, which *)
(* main does not catch                                                     *)
SimultaneousStep ==
    /\ pc = "classify"
    /\ ~is_terminal(FLAGS.game, state)
    /\ ~is_chance_node(FLAGS.game, state)
    /\ is_simultaneous_node(FLAGS.game, state)
    /\ current_player' = CurrentPlayerOf(FLAGS.game, state)
    /\ Die("Game cannot have simultaneous nodes.")
    /\ UNCHANGED <<state, history, initial_actions, ia_idx, action, action_str,
                   returns, ply, stats, config, rngs, bots, next_id, game_num,
                   range_idx, reported, calls, interrupted_at>>

IsDecisionNode ==
    /\ pc = "classify"
    /\ ~is_terminal(FLAGS.game, state)
    /\ ~is_chance_node(FLAGS.game, state)
    /\ ~is_simultaneous_node(FLAGS.game, state)

\* a faulty handler: game_num is not decremented
Handler_NoDecrement ==
    /\ game_num' = game_num
    /\ interrupted_at' = pc
    /\ pc' = "report"
    /\ FrameGone

\* except (KeyboardInterrupt, EOFError), lines 211-213; the frame of
\* _play_game is unwound
Handler ==
    /\ game_num' = game_num - 1
    /\ interrupted_at' = pc
    /\ pc' = "report"
    /\ FrameGone

(* _play_game, lines 150-156: the seat's bot is a HumanBot; a label is read *)
(* with input() and resolved, and an unresolved one ends the process; the   *)
(* end of the input raises EOFError                                         *)
HumanStep ==
    /\ IsDecisionNode
    /\ isinstance_HumanBot(bots[CurrentPlayerOf(FLAGS.game, state) + 1])
    /\ \/ /\ \E label \in Inputs(FLAGS.game) :
                /\ _get_action(FLAGS.game, state, label) # NoAction
                /\ action_str' = label
                /\ action' = _get_action(FLAGS.game, state, label)
          /\ current_player' = CurrentPlayerOf(FLAGS.game, state)
          /\ ply' = NewPly("agent", current_player', state, action', kTerminalPlayerId)
          /\ pc' = "inform"
          /\ UNCHANGED <<state, initial_actions, ia_idx, game_num, exit_msg,
                         interrupted_at>>
       \/ /\ \E label \in Inputs(FLAGS.game) :
                /\ _get_action(FLAGS.game, state, label) = NoAction
                /\ action_str' = label
          /\ action' = NoAction
          /\ current_player' = CurrentPlayerOf(FLAGS.game, state)
          /\ Die("Invalid move")
          /\ UNCHANGED <<state, initial_actions, ia_idx, game_num, ply,
                         interrupted_at>>
       \/ /\ Handler
          /\ UNCHANGED exit_msg
    /\ UNCHANGED <<history, returns, stats, config, rngs, bots, next_id, range_idx,
                   reported, calls>>

\* bot.step(state) of a search or random bot: a legal action picked with the
\* bot's own generator
BotChoice(bot, g, s) == legal_actions(g, s)[Pick(bot.rng, Len(legal_actions(g, s)))]

\* a faulty decision: the bot of the other slot is asked for the action
BotStep_AskOther ==
    /\ IsDecisionNode
    /\ ~isinstance_HumanBot(bots[CurrentPlayerOf(FLAGS.game, state) + 1])
    /\ current_player' = CurrentPlayerOf(FLAGS.game, state)
    /\ action' = BotChoice(bots[2 - current_player'], FLAGS.game, state)
    /\ bots' = [bots EXCEPT ![2 - current_player'].rng = Lcg(@)]
    /\ action_str' = action_to_string(FLAGS.game, state, current_player', action')
    /\ ply' = NewPly("agent", current_player', state, action', 1 - current_player')
    /\ calls' = Used(calls, {bots[2 - current_player'].id})
    /\ pc' = "inform"
    /\ UNCHANGED <<state, history, initial_actions, ia_idx, returns, stats, config,
                   rngs, next_id, game_num, range_idx, reported, exit_msg,
                   interrupted_at>>

(* _play_game, lines 157-160: any other bot decides with bot.step(state) *)
BotStep ==
    /\ IsDecisionNode
    /\ ~isinstance_HumanBot(bots[CurrentPlayerOf(FLAGS.game, state) + 1])
    /\ current_player' = CurrentPlayerOf(FLAGS.game, state)
    /\ action' = BotChoice(bots[current_player' + 1], FLAGS.game, state)
    /\ bots' = [bots EXCEPT ![current_player' + 1].rng = Lcg(@)]
    /\ action_str' = action_to_string(FLAGS.game, state, current_player', action')
    /\ ply' = NewPly("agent", current_player', state, action', current_player')
    /\ calls' = Used(calls, {bots[current_player' + 1].id})
    /\ pc' = "inform"
    /\ UNCHANGED <<state, history, initial_actions, ia_idx, returns, stats, config,
                   rngs, next_id, game_num, range_idx, reported, exit_msg,
                   interrupted_at>>

\* a faulty choice of the bots to inform: nobody is told of a chance outcome
InformTargets_SkipChance(player) == {i \in 1..2 : i - 1 # player /\ player >= 0}

\* the bots lines 162-164 inform: every slot but the acting seat's
InformTargets(player) == {i \in 1..2 : i - 1 # player}

\* a faulty order: the action is applied first and the bots are informed of it
\* with the state it led to
Inform_AfterApply ==
    /\ pc = "inform"
    /\ state' = apply_action(state, action)
    /\ ply' = LET p0 == [ply EXCEPT !.applied = TRUE]
                  p1 == IF 1 \in InformTargets(current_player)
                        THEN Tell(p0, 1, state', current_player, action) ELSE p0
              IN  IF 2 \in InformTargets(current_player)
                  THEN Tell(p1, 2, state', current_player, action) ELSE p1
    /\ history' = Append(history, action_str)
    /\ pc' = "classify"
    /\ UNCHANGED <<initial_actions, ia_idx, current_player, action, action_str,
                   returns, stats, config, rngs, bots, next_id, game_num,
                   range_idx, reported, exit_msg, calls, interrupted_at>>

(* _play_game, lines 162-164: the other bots are informed of the action *)
Inform ==
    /\ pc = "inform"
    /\ ply' = LET p1 == IF 1 \in InformTargets(current_player)
                        THEN Tell(ply, 1, state, current_player, action) ELSE ply
              IN  IF 2 \in InformTargets(current_player)
                  THEN Tell(p1, 2, state, current_player, action) ELSE p1
    /\ calls' = Used(calls, {bots[i].id : i \in InformTargets(current_player)})
    /\ pc' = "apply"
    /\ UNCHANGED <<state, history, initial_actions, ia_idx, current_player, action,
                   action_str, returns, stats, config, rngs, bots, next_id,
                   game_num, range_idx, reported, exit_msg, interrupted_at>>

\* a faulty apply step: the label is not appended to the history
Apply_NoAppend ==
    /\ pc = "apply"
    /\ state' = apply_action(state, action)
    /\ ply' = [ply EXCEPT !.applied = TRUE]
    /\ pc' = "classify"
    /\ UNCHANGED <<history, initial_actions, ia_idx, current_player, action,
                   action_str, returns, stats, config, rngs, bots, next_id,
                   game_num, range_idx, reported, exit_msg, calls, interrupted_at>>

(* _play_game, lines 165-168: the label is appended and the action applied *)
Apply ==
    /\ pc = "apply"
    /\ history' = Append(history, action_str)
    /\ state' = apply_action(state, action)
    /\ ply' = [ply EXCEPT !.applied = TRUE]
    /\ pc' = "classify"
    /\ UNCHANGED <<initial_actions, ia_idx, current_player, action, action_str,
                   returns, stats, config, rngs, bots, next_id, game_num,
                   range_idx, reported, exit_msg, calls, interrupted_at>>

\* a faulty restart loop: only the first bot is restarted
RestartBots_FirstOnly ==
    /\ pc = "restart"
    /\ calls' = [calls EXCEPT !.restart = [i \in 1..2 |-> IF i = 1 THEN @[i] + 1 ELSE @[i]],
                              !.dirty = @ \ {bots[1].id}]
    /\ completed' = Append(completed, [history |-> history, returns |-> returns])
    /\ FrameGone
    /\ pc' = "fold_hist"
    /\ UNCHANGED <<history, returns, histories, overall_returns, overall_wins,
                   folded, config, rngs, bots, next_id, game_num, range_idx,
                   reported, exit_msg, interrupted_at>>

(* _play_game, lines 174-177: every bot is restarted and the result returned *)
RestartBots ==
    /\ pc = "restart"
    /\ calls' = [calls EXCEPT !.restart = [i \in 1..2 |-> @[i] + 1],
                              !.dirty = @ \ {bots[i].id : i \in 1..2}]
    /\ completed' = Append(completed, [history |-> history, returns |-> returns])
    /\ FrameGone
    /\ pc' = "fold_hist"
    /\ UNCHANGED <<history, returns, histories, overall_returns, overall_wins,
                   folded, config, rngs, bots, next_id, game_num, range_idx,
                   reported, exit_msg, interrupted_at>>

(* main, line 206: histories[" ".join(history)] += 1 *)
FoldHistory ==
    /\ pc = "fold_hist"
    /\ histories' = (Join(history) :> (Count(histories, Join(history)) + 1)) @@ histories
    /\ pc' = "fold_ret"
    /\ UNCHANGED <<locals, overall_returns, overall_wins, completed, folded, config,
                   rngs, bots, next_id, game_num, range_idx, reported, exit_msg,
                   calls, interrupted_at>>

\* a faulty win test: a drawn game counts as a win
IsWin_NonNegative(v) == v >= 0

\* line 209: a seat wins a game when its return is positive
IsWin(v) == v > 0

(* main, lines 207-210: the returns are added and the wins counted *)
FoldReturns ==
    /\ pc = "fold_ret"
    /\ overall_returns' = [i \in 1..2 |-> overall_returns[i] + returns[i]]
    /\ overall_wins' = [i \in 1..2 |->
                           overall_wins[i] + (IF IsWin(returns[i]) THEN 1 ELSE 0)]
    /\ folded' = folded + 1
    /\ pc' = "loop"
    /\ UNCHANGED <<locals, histories, completed, config, rngs, bots, next_id,
                   game_num, range_idx, reported, exit_msg, calls, interrupted_at>>

TryPcs == {"loop", "play", "forced", "f_inform", "f_apply", "classify", "inform",
           "apply", "restart", "fold_hist", "fold_ret"}

(* main, lines 198 and 211-213: KeyboardInterrupt raised anywhere in the try *)
Interrupt ==
    /\ pc \in TryPcs
    /\ Handler
    /\ UNCHANGED <<history, returns, stats, config, rngs, bots, next_id, range_idx,
                   reported, exit_msg, calls>>

(* main, lines 215-219: the final report *)
Report ==
    /\ pc = "report"
    /\ reported' = game_num + 1
    /\ pc' = "done"
    /\ UNCHANGED <<locals, stats, config, rngs, bots, next_id, game_num, range_idx,
                   exit_msg, calls, interrupted_at>>

Next ==
    \/ FlagError
    \/ MainStart
    \/ LoopHead
    \/ NewGame
    \/ ForcedResolve
    \/ ForcedInform
    \/ ForcedApply
    \/ ReadReturns
    \/ ChanceStep
    \/ SimultaneousStep
    \/ HumanStep
    \/ BotStep
    \/ Inform
    \/ Apply
    \/ RestartBots
    \/ FoldHistory
    \/ FoldReturns
    \/ Interrupt
    \/ Report

Spec == Init /\ [][Next]_vars

\* the steps of the program itself: no KeyboardInterrupt is delivered
NextLive ==
    \/ FlagError
    \/ MainStart
    \/ LoopHead
    \/ NewGame
    \/ ForcedResolve
    \/ ForcedInform
    \/ ForcedApply
    \/ ReadReturns
    \/ ChanceStep
    \/ SimultaneousStep
    \/ HumanStep
    \/ BotStep
    \/ Inform
    \/ Apply
    \/ RestartBots
    \/ FoldHistory
    \/ FoldReturns
    \/ Report

\* the program is one thread that runs whenever it can: a step that stays
\* possible is taken
SpecLive == Init /\ [][NextLive]_vars /\ WF_vars(NextLive)

-----------------------------------------------------------------------------
(* A second, independent run of the same command line.  It is taken only  *)
(* for sessions no HumanBot was seated in and nothing interrupted: the    *)
(* generators the operating system seeds start afresh, the flags and the  *)
(* opening labels are the same.                                           *)

NonInteractive ==
    /\ FLAGS.player1 # "human"
    /\ FLAGS.player2 # "human"
    /\ FLAGS.num_games <= 2

Rerun ==
    /\ pc = "done"
    /\ run = 1
    /\ interrupted_at = ""
    /\ NonInteractive
    /\ run' = 2
    /\ prev' = completed
    /\ pc' = "main"
    /\ bots' = << >>
    /\ next_id' = 1
    /\ history' = << >>
    /\ returns' = <<0, 0>>
    /\ FrameGone
    /\ histories' = << >>
    /\ overall_returns' = <<0, 0>>
    /\ overall_wins' = <<0, 0>>
    /\ completed' = << >>
    /\ folded' = 0
    /\ game_num' = 0
    /\ range_idx' = 0
    /\ np_random' \in (IF HasChance(FLAGS.game) THEN Entropy ELSE {0})
    /\ py_random' \in (IF FLAGS.random_first THEN Entropy ELSE {0})
    /\ reported' = -1
    /\ calls' = NoCalls
    /\ UNCHANGED <<FLAGS, argv, exit_msg, interrupted_at>>

NextRepro ==
    \/ Next
    \/ Rerun

SpecRepro == Init /\ [][NextRepro]_vars

-----------------------------------------------------------------------------
(* Vocabulary of the properties *)

\* the points between two plies of a game: before a forced label is resolved,
\* before a node is classified, and when the loop has ended
AtPlyBoundary == pc \in {"forced", "classify", "restart"}

\* the positions inside _play_game
GamePcs == {"play", "forced", "f_inform", "f_apply", "classify", "inform",
            "apply", "restart"}

\* what inform_action is called with for the ply in hand, before it is applied
ToldOfPly == [state |-> ply.at, player |-> ply.actor, action |-> ply.act]

Prefix(q, n) == SubSeq(q, 1, n)

\* the stats that a log of completed games folds into
RECURSIVE SumReturns(_, _)
SumReturns(log, i) ==
    IF Len(log) = 0 THEN 0 ELSE log[1].returns[i] + SumReturns(Tail(log), i)

WinsIn(log, i) == Cardinality({k \in 1..Len(log) : log[k].returns[i] > 0})

TimesPlayed(log, key) == Cardinality({k \in 1..Len(log) : Join(log[k].history) = key})

StatsAreOf(log) ==
    /\ DOMAIN histories = {Join(log[k].history) : k \in 1..Len(log)}
    /\ \A key \in DOMAIN histories : histories[key] = TimesPlayed(log, key)
    /\ \A i \in 1..2 : overall_returns[i] = SumReturns(log, i)
    /\ \A i \in 1..2 : overall_wins[i] = WinsIn(log, i)

-----------------------------------------------------------------------------
(* C1 *)

\* C1 (as stated): every observe call of a ply is made after the ply's action
\* has been applied, with the post-apply state.
C1_ObserveAfterApply ==
    \A i \in 1..2 :
        ply.told[i] # << >> =>
            /\ ply.applied
            /\ \A k \in 1..Len(ply.told[i]) :
                  ply.told[i][k].state = apply_action(ply.at, ply.act)

\* C1 (amended): every observe call of a ply is made with the state the action
\* is about to be applied to, all of them are made before the action is applied,
\* and the next ply is classified (or its forced label resolved) only after the
\* ply has been applied.
C1_ObserveBeforeApply ==
    /\ \A i \in 1..2 : \A k \in 1..Len(ply.told[i]) : ply.told[i][k] = ToldOfPly
    /\ ply.applied => \A i \in 1..2 : i - 1 # ply.actor => Len(ply.told[i]) >= 1
    /\ (AtPlyBoundary /\ ply.kind # "none") => ply.applied

C1_Witness ==
    /\ pc = "classify"
    /\ ply.kind = "agent"
    /\ ply.applied
    /\ ply.told[2] = <<ToldOfPly>>

-----------------------------------------------------------------------------
(* C2 *)

\* C2: for every applied action (forced, chance or decided) each agent whose
\* seat is not the acting seat is informed of it exactly once; for a chance ply
\* both agents are.
C2_ObserveExactlyOnce ==
    \A i \in 1..2 :
        i - 1 # ply.actor =>
            /\ Len(ply.told[i]) <= 1
            /\ ply.applied => (Len(ply.told[i]) = 1 /\ ply.told[i][1].action = ply.act)

C2_Witness ==
    /\ ply.kind = "chance"
    /\ ply.applied
    /\ Len(ply.told[1]) = 1
    /\ Len(ply.told[2]) = 1

-----------------------------------------------------------------------------
(* C3 *)

\* C3 (as stated): in no ply is the agent of the acting seat informed of the
\* action applied on its own turn.
C3_ActorNeverInformed ==
    \A i \in 1..2 : i - 1 = ply.actor => ply.told[i] = << >>

\* C3 (amended): in a ply of the dispatch loop (decided or chance) the agent of
\* the acting seat is not informed; in a forced-opening ply (a random first move
\* included) both agents are informed exactly once, the acting seat's too.
C3_ActorInformedOnlyWhenForced ==
    /\ ply.kind \in {"agent", "chance"} =>
          \A i \in 1..2 : i - 1 = ply.actor => ply.told[i] = << >>
    /\ (ply.kind = "forced" /\ ply.applied) =>
          \A i \in 1..2 : ply.told[i] = <<ToldOfPly>>

C3_Witness ==
    /\ ply.kind = "forced"
    /\ ply.applied
    /\ ply.actor \in Seats
    /\ Len(ply.told[ply.actor + 1]) = 1

-----------------------------------------------------------------------------
(* C4 *)

\* C4: a label typed by a human that resolves to no legal action never ends the
\* session: the same seat is asked again on the unchanged state.
C4_HumanReprompted ==
    ~(pc = "fatal" /\ exit_msg = "Invalid move")

-----------------------------------------------------------------------------
(* C5 *)

\* C5: after an interruption raised while game k is in progress the report says
\* k games were played, and the stats are those of the games 0..k-1.
C5_InterruptedGameNotCounted ==
    (pc = "done" /\ interrupted_at \in GamePcs) =>
        /\ reported = range_idx - 1
        /\ Len(completed) = reported
        /\ folded = reported
        /\ StatsAreOf(completed)

C5_Witness ==
    /\ pc = "done"
    /\ interrupted_at = "classify"
    /\ reported = 2
    /\ Len(completed) = 2
    /\ isinstance_HumanBot(bots[2])

-----------------------------------------------------------------------------
(* C6 *)

\* C6: a forced-opening label that resolves to no legal action ends the process
\* with nothing appended, applied or told for it (and, when it is the first
\* label, with no ply played and no game in the stats) and nothing runs after
\* it; no game goes past an unresolved label.
C6_UnresolvedOpeningIsFatal ==
    /\ (pc = "fatal" /\ exit_msg = "Invalid action") =>
          /\ _get_action(FLAGS.game, state, action_str) = NoAction
          /\ action_str = initial_actions[ia_idx]
          /\ history = Prefix(initial_actions, ia_idx - 1)
          /\ Len(state) = ia_idx - 1
          /\ ply.kind = "none" \/ (ply.applied /\ ply.n = ia_idx - 1)
          /\ ~ENABLED Next
          /\ ia_idx = 1 =>
                /\ state = new_initial_state(FLAGS.game)
                /\ completed = << >>
                /\ folded = 0
                /\ histories = << >>
    /\ pc \in {"classify", "inform", "apply", "restart"} =>
          /\ Len(history) >= Len(initial_actions)
          /\ Prefix(history, Len(initial_actions)) = initial_actions
          /\ \A n \in 1..Len(initial_actions) :
                _get_action(FLAGS.game, Prefix(state, n - 1), initial_actions[n])
                   # NoAction

C6_Witness ==
    /\ pc = "fatal"
    /\ exit_msg = "Invalid action"
    /\ ia_idx = 1
    /\ histories = << >>

-----------------------------------------------------------------------------
(* C7 *)

\* C7: at a simultaneous node the dispatcher asks and tells no agent, applies
\* and appends nothing, and the process ends in a fatal error after which
\* nothing runs; no ply of the dispatch loop is ever made at a simultaneous node.
C7_SimultaneousFailsFast ==
    /\ (pc = "fatal" /\ exit_msg = "Game cannot have simultaneous nodes.") =>
          /\ is_simultaneous_node(FLAGS.game, state)
          /\ Len(history) = Len(state)
          /\ ply.kind = "none" \/ (ply.applied /\ ply.n = Len(state))
          /\ ~ENABLED Next
    /\ ply.kind \in {"agent", "chance"} => ~is_simultaneous_node(FLAGS.game, ply.at)
    /\ (pc \in {"inform", "apply"}) => ~is_simultaneous_node(FLAGS.game, state)

C7_Witness ==
    /\ pc = "fatal"
    /\ exit_msg = "Game cannot have simultaneous nodes."
    /\ is_simultaneous_node(FLAGS.game, state)
    /\ ply.kind = "agent"

-----------------------------------------------------------------------------
(* C8 *)

\* C8: two runs with the same seed of a session played by chance and random
\* agents only produce the same histories and results.
C8_SameSeedSameGames ==
    (run = 2 /\ pc = "done" /\ interrupted_at = "" /\ FLAGS.seed # NoSeed
        /\ NonInteractive)
    => completed = prev

-----------------------------------------------------------------------------
(* C9 *)

\* the label of the n-th applied action, under the player acting at the state it
\* was applied to
LabelOfApplied(g, s, n) ==
    action_to_string(g, Prefix(s, n - 1), CurrentPlayerOf(g, Prefix(s, n - 1)), s[n])

\* C9: at every ply boundary the history is as long as the sequence of applied
\* actions and its i-th entry is the label of the i-th applied action.
C9_HistoryMatchesApplied ==
    AtPlyBoundary =>
        /\ Len(history) = Len(state)
        /\ \A n \in 1..Len(state) : history[n] = LabelOfApplied(FLAGS.game, state, n)

C9_Witness ==
    /\ pc = "restart"
    /\ Len(history) = 3
    /\ history[1] = "c1"

-----------------------------------------------------------------------------
(* C10 *)

Unresolved == <<NoAction>>

\* replaying labels from a fresh initial state through _get_action, as the
\* forced-opening path does
RECURSIVE ReplayFrom(_, _, _)
ReplayFrom(g, s, labels) ==
    IF Len(labels) = 0 THEN s
    ELSE IF _get_action(g, s, labels[1]) = NoAction THEN Unresolved
    ELSE ReplayFrom(g, apply_action(s, _get_action(g, s, labels[1])), Tail(labels))

Replay(g, labels) == ReplayFrom(g, new_initial_state(g), labels)

\* no two legal actions of the state share a label
LabelsUnique(g, s) ==
    \A i, j \in 1..Len(legal_actions(g, s)) :
        action_to_string(g, s, CurrentPlayerOf(g, s), legal_actions(g, s)[i])
          = action_to_string(g, s, CurrentPlayerOf(g, s), legal_actions(g, s)[j])
        => i = j

\* C10: where labels are unique among the legal actions of the states passed,
\* replaying any prefix of the history from a fresh initial state reaches the
\* state the direct application reached.
C10_ReplayRoundTrip ==
    AtPlyBoundary =>
        \A n \in 0..Len(history) :
            (\A m \in 0..(n - 1) : LabelsUnique(FLAGS.game, Prefix(state, m)))
            => Replay(FLAGS.game, Prefix(history, n)) = Prefix(state, n)

C10_Witness ==
    /\ pc = "restart"
    /\ FLAGS.game = "dice"
    /\ initial_actions = << >>
    /\ Len(history) = 3
    /\ Replay(FLAGS.game, history) = state

\* without the uniqueness of labels the round trip fails
C10_ReplayWithoutUniqueness ==
    AtPlyBoundary => Replay(FLAGS.game, history) = state

-----------------------------------------------------------------------------
(* C11 *)

\* the positions of the legal actions of the state that carry the label
Matching(g, s, label) ==
    {i \in 1..Len(legal_actions(g, s)) :
        action_to_string(g, s, CurrentPlayerOf(g, s), legal_actions(g, s)[i]) = label}

\* _get_action(state, action_str) has just returned `action`: after a forced
\* label or a typed label was resolved, or when the process died on one
ResolvedHere ==
    \/ pc = "f_inform"
    \/ pc = "inform" /\ ply.kind = "agent" /\ ply.decided = <<0, 0>>
    \/ pc = "fatal" /\ exit_msg \in {"Invalid action", "Invalid move"}

\* C11: resolve returns NotFound exactly when no legal action of the state has
\* the label; otherwise it returns a legal action with that label, never one
\* picked silently among several that share it; the state is left unchanged.
C11_ResolveExact ==
    ResolvedHere =>
        /\ (action = NoAction) <=> (Matching(FLAGS.game, state, action_str) = {})
        /\ action # NoAction =>
              /\ \E i \in Matching(FLAGS.game, state, action_str) :
                    legal_actions(FLAGS.game, state)[i] = action
              /\ Cardinality(Matching(FLAGS.game, state, action_str)) = 1
        /\ pc # "fatal" => state = ply.at

-----------------------------------------------------------------------------
(* C12 *)

RECURSIVE SumOver(_, _)
SumOver(d, keys) ==
    IF keys = {} THEN 0
    ELSE LET k == CHOOSE x \in keys : TRUE
         IN  d[k] + SumOver(d, keys \ {k})

\* the sum of all trajectory occurrence counts
SumCounts == SumOver(histories, DOMAIN histories)

\* C12: once n games have completed and been folded, the trajectory counts sum
\* to n, each trajectory's count is the number of completed games with that
\* label sequence, each seat's total is the sum of its final scores, and each
\* seat's win count is the number of games it scored strictly above zero in.
C12_StatsFoldCompletedGames ==
    folded = Len(completed) =>
        /\ SumCounts = folded
        /\ StatsAreOf(completed)
        /\ \A i \in 1..2 : overall_wins[i] <= folded

C12_Witness ==
    /\ folded = 3
    /\ Len(completed) = 3
    /\ \E key \in DOMAIN histories : histories[key] = 2
    /\ \E k \in 1..3 : completed[k].returns = <<0, 0>>
    /\ overall_wins[1] = 1

-----------------------------------------------------------------------------
(* C13 *)

\* an agent in one of the two slots has been used and not restarted since
SeatedDirty == \E i \in 1..Len(bots) : bots[i].id \in calls.dirty

\* C13: while a game runs no agent is restarted; when it has ended, after its
\* final scores were read, each of the two seated agents has been restarted
\* exactly once; and at the start of the next game (before its initial state
\* and before any decide or observe) no seated agent is left unrestarted.
C13_ResetOncePerGame ==
    /\ pc \in (GamePcs \ {"play"}) => calls.restart = <<0, 0>>
    /\ pc \in {"fold_hist", "fold_ret"} =>
          /\ calls.restart = <<1, 1>>
          /\ returns = completed[Len(completed)].returns
          /\ ~SeatedDirty
    /\ pc \in {"loop", "play"} =>
          /\ calls.restart = (IF range_idx = 0 \/ (pc = "play" /\ range_idx = 1)
                              THEN <<0, 0>> ELSE <<1, 1>>)
          /\ ~SeatedDirty
    /\ (pc = "forced" /\ ply.kind = "none") => ~SeatedDirty

C13_Witness ==
    /\ pc = "play"
    /\ game_num = 2
    /\ calls.restart = <<1, 1>>
    /\ bots[1].kind = "mcts"
    /\ ~SeatedDirty

-----------------------------------------------------------------------------
(* C14 *)

\* a game is in progress or its result is being folded
InGame == pc \in GamePcs \cup {"fold_hist", "fold_ret"}

\* who sits in the two slots: the objects' identities and kinds
Seated == [i \in 1..Len(bots) |-> <<bots[i].id, bots[i].kind>>]

\* the slots during game game_num: seat 0 holds the agent built at the start,
\* seat 1 holds the configured agent in games 0 and 1 and a human agent that is
\* another object from game 2 on
SlotsOfGame ==
    InGame =>
        /\ Seated[1] = <<1, FLAGS.player1>>
        /\ game_num < 2 => Seated[2] = <<2, FLAGS.player2>>
        /\ game_num >= 2 => (Seated[2][2] = "human" /\ Seated[2][1] \notin {1, 2})

-----------------------------------------------------------------------------
(* C15 *)

\* the selection is invalid: a game for more than two players, or an agent kind
\* that is not one of the known ones
InvalidSelection ==
    \/ num_players(FLAGS.game) > 2
    \/ FLAGS.player1 \notin _KNOWN_PLAYERS
    \/ FLAGS.player2 \notin _KNOWN_PLAYERS

ConfigErrors ==
    {"Illegal flag value",
     "This game requires more players than the example can handle."}

\* C15: with an invalid selection the process ends in an error before any game
\* state is built, any ply is played or any result is recorded, and nothing runs
\* after the error: a session with an invalid selection never gets past its
\* start.
C15_InvalidSelectionFailsAtStart ==
    /\ InvalidSelection => pc \in {"main", "fatal"}
    /\ (InvalidSelection /\ pc = "fatal") =>
          /\ exit_msg \in ConfigErrors
          /\ range_idx = 0
          /\ ply = NoPly
          /\ history = << >>
          /\ completed = << >>
          /\ histories = << >>
          /\ folded = 0
          /\ reported = -1
          /\ ~ENABLED Next
    /\ (pc = "fatal" /\ exit_msg \in ConfigErrors) => InvalidSelection

C15_Witness ==
    /\ pc = "fatal"
    /\ num_players(FLAGS.game) > 2
    /\ FLAGS.player1 \in _KNOWN_PLAYERS
    /\ FLAGS.player2 \in _KNOWN_PLAYERS
    /\ exit_msg = "This game requires more players than the example can handle."

-----------------------------------------------------------------------------
(* C16 *)

\* C16: whenever the session has printed its final report, the number of games
\* it reports as played is the sum of the trajectory counts, the number of games
\* folded into the statistics.
C16_ReportedIsFolded ==
    pc = "done" => (reported = SumCounts /\ reported = folded)

-----------------------------------------------------------------------------
(* C17 *)

\* the slots whose agent was asked to decide the current ply
Deciders(p) == {i \in 1..2 : p.decided[i] > 0}

\* what holds of a ply some agent decided
DecidedPly ==
    \A i \in Deciders(ply) :
        /\ ply.decided[i] = 1
        /\ ply.kind = "agent"
        /\ ~is_terminal(FLAGS.game, ply.at)
        /\ ~is_chance_node(FLAGS.game, ply.at)
        /\ ~is_simultaneous_node(FLAGS.game, ply.at)
        /\ CurrentPlayerOf(FLAGS.game, ply.at) = i - 1
        /\ ply.actor = i - 1
        /\ IF ply.applied THEN state = apply_action(ply.at, ply.act)
                          ELSE state = ply.at /\ action = ply.act

\* a step in which an agent is asked to decide
Asked ==
    /\ Deciders(ply') # {}
    /\ \/ pc = "classify" /\ pc' = "inform"
       \/ ply'.decided # ply.decided
       \/ ply'.at # ply.at
       \/ ply.applied /\ ~ply'.applied

\* C17: an agent is asked to decide only at a node that is not terminal, not a
\* chance node and not a simultaneous node, only the agent seated at the node's
\* current player is asked, and once per ply: between two decisions the earlier
\* one's action was applied. No agent is asked for a forced-opening ply or a
\* chance ply, and the action applied in a decided ply is the one returned.
C17_DecideOnlyByActorOncePerPly ==
    /\ [](DecidedPly /\ (ply.kind \in {"forced", "chance"} => Deciders(ply) = {}))
    /\ [][Asked =>
             /\ ply.applied \/ ply = NoPly
             /\ ply'.at = state
             /\ ~ply'.applied
             /\ Cardinality(Deciders(ply')) = 1]_vars
    /\ [][(Deciders(ply) # {} /\ ~ply.applied /\ ply'.applied) =>
             state' = apply_action(state, ply.act)]_vars

C17_Witness ==
    /\ pc = "classify"
    /\ ply.applied
    /\ ply.kind = "agent"
    /\ Deciders(ply) = {2}
    /\ Len(state) = 3

-----------------------------------------------------------------------------
(* C18 *)

\* the session was cut short: by an interrupt or an end of input, by input the
\* program refuses (an illegal flag value, a game for more than two players,
\* opening labels given together with --random_first, a label that resolves to
\* no legal action), or by a simultaneous node
CutShort ==
    \/ interrupted_at # ""
    \/ pc = "fatal"

\* the final report of a session that played all its games
PlayedAll ==
    /\ pc = "done"
    /\ folded = FLAGS.num_games
    /\ Len(completed) = FLAGS.num_games
    /\ SumCounts = FLAGS.num_games
    /\ range_idx = FLAGS.num_games

\* a step that starts a game
StartsGame == pc = "loop" /\ pc' = "play"

\* C18: a session that is not cut short by an interrupt, by refused input or by
\* a simultaneous node reaches its final report, and has then played exactly
\* num_games games; games start in increasing order of their index, the game of
\* index k only when the k games before it were folded into the statistics.
C18_SessionPlaysAllGames ==
    /\ <>(CutShort \/ PlayedAll)
    /\ []((pc = "done" /\ ~CutShort) => PlayedAll)
    /\ [][StartsGame =>
             /\ game_num' = folded
             /\ folded = Len(completed)
             /\ game_num' = range_idx
             /\ game_num' < FLAGS.num_games
             /\ ~CutShort]_vars

C18_Witness ==
    /\ PlayedAll
    /\ ~CutShort
    /\ FLAGS.num_games = MaxGames
    /\ FLAGS.game = "dice"

====
